---- MODULE Spec2Model ----
(***************************************************************************)
(* Model of merge_multipart_vr.py: the part-token parser                   *)
(* (normalize_basename, roman_to_int), the group builder and merge         *)
(* planner of main(), and the catalog calls (get_or_create_tag,            *)
(* scene_merge, scene_update_tags, scene_update_title).                    *)
(*                                                                         *)
(* Strings are sequences of one-character strings.  The absent part        *)
(* number (Python None) is the value NoPart.                               *)
(***************************************************************************)
EXTENDS Integers, Sequences, FiniteSets, TLC

VARIABLES
    DRY_RUN,        \* module-level flag DRY_RUN
    VR_TAG_NAME,    \* module-level setting VR_TAG_NAME
    pc,             \* position of main()
    catalog,        \* the remote catalog: [tags, scenes]
    catalog0,       \* the catalog as it was when main() started
    requests,       \* mutating GraphQL requests issued so far, in order
    trace,          \* "[DRY] ..." lines printed so far, in order
    vr_tag_id,      \* local vr_tag_id of main()
    mp_tag_id,      \* local mp_tag_id of main()
    all_scenes,     \* local all_scenes of main()
    groups,         \* local groups of main(): buckets in insertion order
    gi,             \* position of the loop over groups.items()
    cur,            \* the bucket being processed: sorted items, target
    merged_count,   \* local merged_count of main()
    exit_code,      \* process outcome: -1 running, 0 normal, 1 / 2 sys.exit
    name,           \* argument of normalize_basename (parser specification)
    parsed,         \* result of normalize_basename (parser specification)
    title,          \* a target title (title specification)
    cleaned         \* result of the title cleaning (title specification)

vars == <<DRY_RUN, VR_TAG_NAME, pc, catalog, catalog0, requests, trace,
          vr_tag_id, mp_tag_id, all_scenes, groups, gi, cur, merged_count,
          exit_code, name, parsed, title, cleaned>>

mainVars == <<DRY_RUN, VR_TAG_NAME, pc, catalog, catalog0, requests, trace,
              vr_tag_id, mp_tag_id, all_scenes, groups, gi, cur,
              merged_count, exit_code>>

textVars == <<name, parsed, title, cleaned>>

----------------------------------------------------------------------------
(* Bounds *)

MaxScenes == 4      \* records in the catalog
MaxPieces == 5      \* pieces a generated file name is made of
MaxTitlePieces == 5 \* pieces a generated title is made of

----------------------------------------------------------------------------
(* Characters and character classes *)

NoPart == -1
None == -2

\* [ _.\-\(\)\[\]]
Boundary == {" ", "_", ".", "-", "(", ")", "[", "]"}

\* [ _.\-]
Separator == {" ", "_", ".", "-"}

\* \d
Digits == {"0", "1", "2", "3", "4", "5", "6", "7", "8", "9"}

\* \s, str.strip()
Whitespace == {" ", "\t", "\n", "\r", "\f"}

UpperLetters ==
    <<"A", "B", "C", "D", "E", "F", "G", "H", "I", "J", "K", "L", "M",
      "N", "O", "P", "Q", "R", "S", "T", "U", "V", "W", "X", "Y", "Z">>

LowerLetters ==
    <<"a", "b", "c", "d", "e", "f", "g", "h", "i", "j", "k", "l", "m",
      "n", "o", "p", "q", "r", "s", "t", "u", "v", "w", "x", "y", "z">>

UpperSet == {UpperLetters[i] : i \in 1..26}

LowerSet == {LowerLetters[i] : i \in 1..26}

\* \w
WordChar == UpperSet \cup LowerSet \cup Digits \cup {"_"}

LowerMap == [c \in UpperSet |-> LowerLetters[CHOOSE i \in 1..26 : UpperLetters[i] = c]]

UpperMap == [c \in LowerSet |-> UpperLetters[CHOOSE i \in 1..26 : LowerLetters[i] = c]]

LowerChar(c) == IF c \in UpperSet THEN LowerMap[c] ELSE c

UpperChar(c) == IF c \in LowerSet THEN UpperMap[c] ELSE c

\* str.lower()
Lower(s) == [i \in 1..Len(s) |-> LowerChar(s[i])]

\* str.upper()
Upper(s) == [i \in 1..Len(s) |-> UpperChar(s[i])]

DigitVal ==
    [c \in Digits |->
        CASE c = "0" -> 0 [] c = "1" -> 1 [] c = "2" -> 2 [] c = "3" -> 3
          [] c = "4" -> 4 [] c = "5" -> 5 [] c = "6" -> 6 [] c = "7" -> 7
          [] c = "8" -> 8 [] c = "9" -> 9]

\* int(num) for a string of decimal digits
RECURSIVE int(_)
int(s) ==
    IF s = <<>> THEN 0
    ELSE 10 * int(SubSeq(s, 1, Len(s) - 1)) + DigitVal[s[Len(s)]]

\* s[i:] with 1-based i
Tail_from(s, i) == SubSeq(s, i, Len(s))

\* str.strip()
RECURSIVE lstrip(_)
lstrip(s) ==
    IF s # <<>> /\ s[1] \in Whitespace THEN lstrip(Tail(s)) ELSE s

RECURSIVE rstrip(_)
rstrip(s) ==
    IF s # <<>> /\ s[Len(s)] \in Whitespace
    THEN rstrip(SubSeq(s, 1, Len(s) - 1)) ELSE s

strip(s) == rstrip(lstrip(s))

\* first index >= i whose character is outside class, Len(s)+1 if none
RECURSIVE RunEnd(_, _, _)
RunEnd(s, i, class) ==
    IF i <= Len(s) /\ s[i] \in class THEN RunEnd(s, i + 1, class) ELSE i

\* re.sub(r"\s+", " ", s)
RECURSIVE CollapseWs(_)
CollapseWs(s) ==
    IF s = <<>> THEN <<>>
    ELSE IF s[1] \in Whitespace
         THEN <<" ">> \o CollapseWs(Tail_from(s, RunEnd(s, 1, Whitespace)))
         ELSE <<s[1]>> \o CollapseWs(Tail(s))

\* re.sub(r"\s{2,}", " ", s)
RECURSIVE CollapseWs2(_)
CollapseWs2(s) ==
    IF s = <<>> THEN <<>>
    ELSE IF s[1] \in Whitespace /\ RunEnd(s, 1, Whitespace) > 2
         THEN <<" ">> \o CollapseWs2(Tail_from(s, RunEnd(s, 1, Whitespace)))
         ELSE <<s[1]>> \o CollapseWs2(Tail(s))

\* pathlib.Path(name).stem for a name without path separators
Stem(n) ==
    LET nm == IF n = <<".">> THEN <<>> ELSE n
        dots == {i \in 1..Len(nm) : nm[i] = "."}
        d == IF dots = {} THEN 0 ELSE CHOOSE i \in dots : \A j \in dots : j <= i
    IN  IF 1 < d /\ d < Len(nm) THEN SubSeq(nm, 1, d - 1) ELSE nm

----------------------------------------------------------------------------
(* PART_TOKEN, AB_TOKEN and the pattern of the title cleaning *)

\* (?:pt|part|cd|disc), case-insensitive
Keywords == << <<"p", "t">>, <<"p", "a", "r", "t">>, <<"c", "d">>,
               <<"d", "i", "s", "c">> >>

HasAt(s, i, w) ==
    /\ i >= 1
    /\ i + Len(w) - 1 <= Len(s)
    /\ \A k \in 1..Len(w) : LowerChar(s[i + k - 1]) = w[k]

\* the first element of a set of numbers, 0 if it is empty
Least(ks) == IF ks = {} THEN 0 ELSE CHOOSE k \in ks : \A j \in ks : k <= j

\* the last element of a set of numbers, 0 if it is empty
Longest(ks) == IF ks = {} THEN 0 ELSE CHOOSE k \in ks : \A j \in ks : j <= k

\* the keyword that starts at i, as an index of Keywords, 0 if none does
KeywordAt(s, i) == Least({k \in 1..Len(Keywords) : HasAt(s, i, Keywords[k])})

\* index after the keyword that starts at i, 0 if no keyword starts there
KeywordEndOf(i, k) == IF k = 0 THEN 0 ELSE i + Len(Keywords[k])

KeywordEnd(s, i) == KeywordEndOf(i, KeywordAt(s, i))

\* [ivx], case-insensitive
Roman == {"i", "v", "x"}

\* (?:$|[ _.\-\(\)\[\]]) at index e: index after it, 0 if it does not match
TrailEnd(s, e) ==
    IF e = Len(s) + 1 \/ (e = Len(s) /\ s[e] = "\n") THEN e
    ELSE IF e <= Len(s) /\ s[e] \in Boundary THEN e + 1
    ELSE 0

AllIn(s, j, k, class) ==
    \A q \in 0..(k - 1) : j + q <= Len(s) /\ LowerChar(s[j + q]) \in class

\* \d{1,2} followed by the trailing boundary: greedy length, 0 if no match
DigitsLen(s, j) ==
    Longest({k \in 1..2 : AllIn(s, j, k, Digits) /\ TrailEnd(s, j + k) # 0})

\* [ivx]{1,6} followed by the trailing boundary: greedy length, 0 if no match
RomanLen(s, j) ==
    Longest({k \in 1..6 : AllIn(s, j, k, Roman) /\ TrailEnd(s, j + k) # 0})

\* a|b: the first alternative that matches
FirstNonZero(a, b) == IF a # 0 THEN a ELSE b

\* (?P<num>(?:\d{1,2}|[ivx]{1,6})) followed by the trailing boundary:
\* the length of num, 0 if there is no match
NumLen(s, j) == FirstNonZero(DigitsLen(s, j), RomanLen(s, j))

NoMatch == [ok |-> FALSE, start |-> 0, numStart |-> 0, numEnd |-> 0, end |-> 0]

\* a match object: span start..end-1, group num (or ab) numStart..numEnd-1
Match(start, numStart, numEnd, end) ==
    [ok |-> TRUE, start |-> start, numStart |-> numStart, numEnd |-> numEnd,
     end |-> end]

\* PART_TOKEN from index i on, num of length n starting at j
PartWithNum(s, i, j, n) ==
    IF n = 0 THEN NoMatch ELSE Match(i, j, j + n, TrailEnd(s, j + n))

\* PART_TOKEN from index i on, the separators [ _.\-]* ending before j
PartAfterSeparators(s, i, j) == PartWithNum(s, i, j, NumLen(s, j))

\* PART_TOKEN from index i on, the keyword ending before ke
PartAfterKeyword(s, i, ke) ==
    IF ke = 0 THEN NoMatch
    ELSE PartAfterSeparators(s, i, RunEnd(s, ke, Separator))

\* PART_TOKEN with the keyword starting at index k, the match starting at i
PartFromKeyword(s, i, k) == PartAfterKeyword(s, i, KeywordEnd(s, k))

\* a|b: the first alternative that matches
FirstOk(a, b) == IF a.ok THEN a ELSE b

\* PART_TOKEN.match at index i: (?:^|[...]) is ^ first, then a boundary char
PartMatchAt(s, i) ==
    FirstOk(IF i = 1 THEN PartFromKeyword(s, i, i) ELSE NoMatch,
            IF i <= Len(s) /\ s[i] \in Boundary
            THEN PartFromKeyword(s, i, i + 1) ELSE NoMatch)

\* AB_TOKEN with the letter at index k, the match starting at i
AbFromLetter(s, i, k) ==
    IF k <= Len(s) /\ LowerChar(s[k]) \in {"a", "b"} /\ TrailEnd(s, k + 1) # 0
    THEN Match(i, k, k + 1, TrailEnd(s, k + 1))
    ELSE NoMatch

\* AB_TOKEN.match at index i
AbMatchAt(s, i) ==
    FirstOk(IF i = 1 THEN AbFromLetter(s, i, i) ELSE NoMatch,
            IF i <= Len(s) /\ s[i] \in Boundary
            THEN AbFromLetter(s, i, i + 1) ELSE NoMatch)

IsWord(s, p) == p >= 1 /\ p <= Len(s) /\ s[p] \in WordChar

\* \b at index p (between s[p-1] and s[p])
WordBoundary(s, p) == IsWord(s, p - 1) # IsWord(s, p)

\* \d{1,2}\b at index j: greedy length, 0 if no match
TitleDigitsLen_two(s, j) ==
    Longest({k \in 1..2 : AllIn(s, j, k, Digits) /\ WordBoundary(s, j + k)})

\* \d+\b at index j: greedy length, 0 if no match
TitleDigitsLen(s, j) ==
    Longest({k \in 1..(Len(s) + 1 - j) :
                AllIn(s, j, k, Digits) /\ WordBoundary(s, j + k)})

\* the title pattern from index i on, the digits of length n starting at j
TitleWithNum(i, j, n) == IF n = 0 THEN NoMatch ELSE Match(i, j, j + n, j + n)

\* the title pattern from index i on, the separators ending before j
TitleAfterSeparators(s, i, j) == TitleWithNum(i, j, TitleDigitsLen(s, j))

\* the title pattern from index i on, the keyword ending before ke
TitleAfterKeyword(s, i, ke) ==
    IF ke = 0 THEN NoMatch
    ELSE TitleAfterSeparators(s, i, RunEnd(s, ke, Separator))

\* (?i)\b(?:pt|part|cd|disc)[ _.\-]*\d+\b at index i
TitleMatchAt(s, i) ==
    IF WordBoundary(s, i) THEN TitleAfterKeyword(s, i, KeywordEnd(s, i))
    ELSE NoMatch

\* pattern.match(s, i) for the three patterns of the program
MatchAt(pattern, s, i) ==
    CASE pattern = "PART_TOKEN" -> PartMatchAt(s, i)
      [] pattern = "AB_TOKEN" -> AbMatchAt(s, i)
      [] pattern = "TITLE" -> TitleMatchAt(s, i)

RECURSIVE Search(_, _, _)
\* the search at pos, m being what the pattern matches at pos
SearchWith(pattern, s, pos, m) ==
    IF m.ok THEN m ELSE Search(pattern, s, pos + 1)

\* pattern.search(s, pos): the leftmost match starting at or after pos
Search(pattern, s, pos) ==
    IF pos > Len(s) + 1 THEN NoMatch
    ELSE SearchWith(pattern, s, pos, MatchAt(pattern, s, pos))

RECURSIVE SubFrom(_, _, _, _)
\* the substitution from pos on, m being the leftmost match from pos on
SubWith(pattern, repl, s, pos, m) ==
    IF ~m.ok THEN Tail_from(s, pos)
    ELSE SubSeq(s, pos, m.start - 1) \o repl
             \o SubFrom(pattern, repl, s, m.end)

\* pattern.sub(repl, s) from index pos on: every non-overlapping match,
\* left to right
SubFrom(pattern, repl, s, pos) ==
    SubWith(pattern, repl, s, pos, Search(pattern, s, pos))

----------------------------------------------------------------------------
(* roman_to_int and normalize_basename *)

RomanVal(ch) ==
    CASE ch = "I" -> 1 [] ch = "V" -> 5 [] ch = "X" -> 10 [] OTHER -> 0

\* one step of the loop of roman_to_int: r is [total, prev] before it
RomanStep(r, val) ==
    IF val < r.prev
    THEN [total |-> r.total - val, prev |-> r.prev]
    ELSE [total |-> r.total + val, prev |-> val]

\* the loop of roman_to_int over reversed(s): [total, prev] after s[i..]
RECURSIVE RomanScan(_, _)
RomanScan(s, i) ==
    IF i > Len(s) THEN [total |-> 0, prev |-> 0]
    ELSE RomanStep(RomanScan(s, i + 1), RomanVal(s[i]))

\* return total if total > 0 else None
PositiveOrNone(total) == IF total > 0 THEN total ELSE NoPart

\* roman_to_int returning total whatever its sign
roman_to_int_any_total(s) == RomanScan(Upper(s), 1).total

roman_to_int(s) == PositiveOrNone(RomanScan(Upper(s), 1).total)

\* try: part = int(num) / except ValueError: part = roman_to_int(num) or None
PartNumber(num) ==
    IF \A q \in 1..Len(num) : num[q] \in Digits
    THEN int(num) ELSE roman_to_int(num)

\* part = 1 if letter == "A" else 2 if letter == "B" else None
LetterPart(letter) ==
    IF letter = "A" THEN 1 ELSE IF letter = "B" THEN 2 ELSE NoPart

\* re.sub(r"\s+", " ", pattern.sub(" ", stem)).strip()
BaseWithout(pattern, stem) ==
    strip(CollapseWs(SubFrom(pattern, <<" ">>, stem, 1)))

\* normalize_basename from "m2 = AB_TOKEN.search(stem)" on
NormalizeAb(stem, m2) ==
    IF m2.ok
    THEN [base |-> BaseWithout("AB_TOKEN", stem),
          part |-> LetterPart(UpperChar(stem[m2.numStart]))]
    ELSE [base |-> stem, part |-> NoPart]

\* normalize_basename from "m = PART_TOKEN.search(stem)" on
NormalizePart(stem, m) ==
    IF m.ok
    THEN [base |-> BaseWithout("PART_TOKEN", stem),
          part |-> PartNumber(SubSeq(stem, m.numStart, m.numEnd - 1))]
    ELSE NormalizeAb(stem, Search("AB_TOKEN", stem, 1))

\* normalize_basename from "stem = pathlib.Path(name).stem" on
NormalizeStem(stem) == NormalizePart(stem, Search("PART_TOKEN", stem, 1))

normalize_basename(n) == NormalizeStem(Stem(n))

----------------------------------------------------------------------------
(* Title cleaning of main() *)

\* new_title of main()
new_title(t) == CollapseWs2(strip(SubFrom("TITLE", <<>>, t, 1)))

\* if new_title and new_title != target["title"]
Differs(t, new) == new # <<>> /\ new # t

\* the guard without the comparison with the original title
title_changes_nonempty(t) == new_title(t) # <<>>

\* the condition guarding scene_update_title in main()
title_changes(t) == Differs(t, new_title(t))

----------------------------------------------------------------------------
(* Generated strings *)

RECURSIVE Flatten(_)
Flatten(ps) == IF ps = <<>> THEN <<>> ELSE Head(ps) \o Flatten(Tail(ps))

SeqsUpTo(S, n) == UNION {[1..k -> S] : k \in 0..n}

NamePieces == {<<"p", "t">>, <<"1">>, <<" ">>, <<"v">>, <<"x">>, <<"B">>,
               <<".">>, <<"s">>}

Names == {Flatten(ps) : ps \in SeqsUpTo(NamePieces, MaxPieces)}

TitlePieces == {<<"p", "t">>, <<"1">>, <<" ">>, <<"-">>, <<"_">>, <<"a">>}

MyShow == <<"M", "y", " ", "S", "h", "o", "w">>

MyShowPart2 == <<"M", "y", " ", "S", "h", "o", "w", " ", "p", "a", "r", "t", " ", "2">>

Titles ==
    {Flatten(ps) : ps \in SeqsUpTo(TitlePieces, MaxTitlePieces)}
        \cup {MyShow, MyShowPart2}

----------------------------------------------------------------------------
(* The parser and the title cleaning applied to generated strings *)

EmptyCatalog == [tags |-> {}, scenes |-> <<>>]

NoBucket == [items |-> <<>>, target |-> 0]

MainIdle ==
    /\ DRY_RUN = FALSE
    /\ VR_TAG_NAME = <<>>
    /\ pc = "idle"
    /\ catalog = EmptyCatalog
    /\ catalog0 = EmptyCatalog
    /\ requests = <<>>
    /\ trace = <<>>
    /\ vr_tag_id = None
    /\ mp_tag_id = None
    /\ all_scenes = <<>>
    /\ groups = <<>>
    /\ gi = 0
    /\ cur = NoBucket
    /\ merged_count = 0
    /\ exit_code = -1

ParseInit ==
    /\ name \in Names
    /\ parsed = <<>>
    /\ title = <<>>
    /\ cleaned = <<>>
    /\ MainIdle

\* base, part = normalize_basename(f["basename"])
Parse ==
    /\ pc = "idle"
    /\ parsed = <<>>
    /\ parsed' = <<normalize_basename(name)>>
    /\ UNCHANGED <<name, title, cleaned>>
    /\ UNCHANGED mainVars

NextParse == Parse

SpecParse == ParseInit /\ [][NextParse]_vars

TitleInit ==
    /\ title \in Titles
    /\ cleaned = <<>>
    /\ name = <<>>
    /\ parsed = <<>>
    /\ MainIdle

\* new_title = ...; if new_title and new_title != target["title"]: ...
CleanTitle ==
    /\ pc = "idle"
    /\ cleaned = <<>>
    /\ cleaned' = <<[new_title |-> new_title(title),
                     update |-> title_changes(title)]>>
    /\ UNCHANGED <<name, parsed, title>>
    /\ UNCHANGED mainVars

NextTitle == CleanTitle

SpecTitle == TitleInit /\ [][NextTitle]_vars

----------------------------------------------------------------------------
(* The catalog *)

OtherTagId == 7

\* a file of a scene: path as its components, and the basename
File(dir, basename) == [path |-> <<"media", dir, basename>>, basename |-> basename]

\* the scenes a catalog can hold
ScenePool == {
    [id |-> 1, title |-> <<"S", "c", "e", "n", "e", " ", "A", " ", "p", "a", "r", "t", " ", "1">>,
     files |-> <<File("d1", <<"S", "c", "e", "n", "e", " ", "A", " ", "p", "t", "1", ".", "m", "p", "4">>)>>,
     tags |-> {}],
    [id |-> 2, title |-> <<"p", "t", "2">>,
     files |-> <<File("d1", <<"S", "c", "e", "n", "e", " ", "A", " ", "p", "t", "2", ".", "m", "p", "4">>)>>,
     tags |-> {OtherTagId}],
    [id |-> 3, title |-> <<"S", "c", "e", "n", "e", " ", "B">>,
     files |-> <<File("d1", <<"S", "c", "e", "n", "e", " ", "B", ".", "m", "p", "4">>)>>,
     tags |-> {}],
    [id |-> 4, title |-> <<"S", "c", "e", "n", "e", " ", "A", " ", "I", "I">>,
     files |-> <<File("d1", <<"s", "c", "e", "n", "e", " ", "a", "-", "p", "t", "2", ".", "m", "k", "v">>)>>,
     tags |-> {}],
    [id |-> 5, title |-> <<"S", "c", "e", "n", "e", " ", "A">>,
     files |-> <<File("d1", <<"S", "c", "e", "n", "e", " ", "A", " ", "c", "d", " ", "i", "i", "i", ".", "m", "p", "4">>)>>,
     tags |-> {}],
    [id |-> 6, title |-> <<"S", "c", "e", "n", "e", " ", "d", "i", "s", "c", " ", "1">>,
     files |-> <<File("d1", <<"S", "c", "e", "n", "e", " ", "A", ".", "m", "p", "4">>)>>,
     tags |-> {OtherTagId}],
    [id |-> 7, title |-> <<"S", "c", "e", "n", "e", " ", "A">>,
     files |-> <<File("d2", <<"S", "c", "e", "n", "e", " ", "A", " ", "p", "t", "1", ".", "m", "p", "4">>),
            File("d1", <<"S", "c", "e", "n", "e", " ", "A", " ", "p", "t", "2", ".", "m", "p", "4">>)>>,
     tags |-> {}]}

\* the tags a catalog can hold when main() starts
TagPool == {
    {[id |-> OtherTagId, name |-> <<"o">>]},
    {[id |-> OtherTagId, name |-> <<"o">>],
     [id |-> 1, name |-> <<"v", "r">>],
     [id |-> 2, name |-> <<"M", "U", "L", "T", "I", "P", "A", "R", "T">>]}}

\* sequences without repetition of at most n elements of S
DistinctSeqs(S, n) ==
    {q \in SeqsUpTo(S, n) : \A i, j \in 1..Len(q) : i # j => q[i] # q[j]}

Catalogs ==
    {[tags |-> ts, scenes |-> sc] :
        ts \in TagPool, sc \in DistinctSeqs(ScenePool, MaxScenes)}

MULTIPART_TAG_NAME == <<"M", "u", "l", "t", "i", "p", "a", "r", "t">>

PerPage == 200

Max(S) == CHOOSE x \in S : \A y \in S : y <= x

\* a request sent to, or a line printed about, the catalog
Call(op, id, sources, tag_ids, text) ==
    [op |-> op, id |-> id, sources |-> sources, tag_ids |-> tag_ids,
     title |-> text]

\* outcomes of gql(): the data, requests.HTTPError, RuntimeError(errors)
Outcomes == {"ok", "http_error", "graphql_errors"}

\* the handlers at the end of main(): sys.exit(2) / sys.exit(1)
ExitCodeOf(outcome) == IF outcome = "http_error" THEN 2 ELSE 1

\* sceneMerge on the server
MergedScenes(scenes, target_id, source_ids) ==
    LET srcs == {source_ids[i] : i \in 1..Len(source_ids)}
        moved == Flatten([i \in 1..Len(scenes) |->
                    IF scenes[i].id \in srcs THEN scenes[i].files ELSE <<>>])
        kept == SelectSeq(scenes, LAMBDA sc : sc.id \notin srcs)
    IN  [i \in 1..Len(kept) |->
            IF kept[i].id = target_id
            THEN [kept[i] EXCEPT !.files = @ \o moved] ELSE kept[i]]

\* sceneUpdate on the server
UpdatedScenes(scenes, id, field, value) ==
    [i \in 1..Len(scenes) |->
        IF scenes[i].id = id
        THEN IF field = "tags" THEN [scenes[i] EXCEPT !.tags = value]
             ELSE [scenes[i] EXCEPT !.title = value]
        ELSE scenes[i]]

----------------------------------------------------------------------------
(* Group building and merge planning of main() *)

\* str(pathlib.Path(f["path"]).parent)
Parent(path) == SubSeq(path, 1, Len(path) - 1)

KeyIndex(gs, key) == Least({i \in 1..Len(gs) : gs[i].key = key})

\* groups.setdefault(key, []).append(entry)
AddEntryAt(gs, key, entry, k) ==
    IF k = 0
    THEN Append(gs, [key |-> key, items |-> <<entry>>])
    ELSE [gs EXCEPT ![k].items = Append(@, entry)]

AddEntry(gs, key, entry) == AddEntryAt(gs, key, entry, KeyIndex(gs, key))

\* the iteration for the first file f, keyed by the stem as it is
GroupFile_raw_key(gs, sc, f, r) ==
    IF r.part = NoPart THEN gs
    ELSE AddEntry(gs, <<Parent(f.path), Lower(Stem(f.basename))>>,
                  [scene |-> sc, part |-> r.part, basename |-> f.basename])

\* one iteration of "for sc in all_scenes", f being the first file and r
\* what normalize_basename makes of its basename
GroupFile(gs, sc, f, r) ==
    IF r.part = NoPart THEN gs
    ELSE AddEntry(gs, <<Parent(f.path), Lower(r.base)>>,
                  [scene |-> sc, part |-> r.part, basename |-> f.basename])

\* one iteration of "for sc in all_scenes"
GroupScene(gs, sc) ==
    IF sc.files = <<>> THEN gs
    ELSE GroupFile(gs, sc, sc.files[1],
                   normalize_basename(sc.files[1].basename))

RECURSIVE BuildGroups(_, _)
BuildGroups(gs, scenes) ==
    IF scenes = <<>> THEN gs
    ELSE BuildGroups(GroupScene(gs, Head(scenes)), Tail(scenes))

\* insertion of x in front of the items of equal part
RECURSIVE InsertByPart_unstable(_, _)
InsertByPart_unstable(sorted, x) ==
    IF sorted = <<>> THEN <<x>>
    ELSE IF sorted[Len(sorted)].part < x.part THEN Append(sorted, x)
    ELSE Append(InsertByPart_unstable(SubSeq(sorted, 1, Len(sorted) - 1), x),
                sorted[Len(sorted)])

\* insertion of x behind every item whose part is not larger
RECURSIVE InsertByPart(_, _)
InsertByPart(sorted, x) ==
    IF sorted = <<>> THEN <<x>>
    ELSE IF sorted[Len(sorted)].part <= x.part THEN Append(sorted, x)
    ELSE Append(InsertByPart(SubSeq(sorted, 1, Len(sorted) - 1), x),
                sorted[Len(sorted)])

\* items.sort(key=lambda x: x["part"])
RECURSIVE SortByPart(_)
SortByPart(items) ==
    IF items = <<>> THEN <<>>
    ELSE InsertByPart(SortByPart(SubSeq(items, 1, Len(items) - 1)),
                      items[Len(items)])

\* the guard with the bound off by one
Qualifies_one(items) == Len(items) >= 1

\* the negation of "if len(items) < 2: continue"
Qualifies(items) == Len(items) >= 2

\* sources = [it["scene"]["id"] for it in items[1:]]
SourceIds(items) == [i \in 1..(Len(items) - 1) |-> items[i + 1].scene.id]

\* tag_ids of main()
TagIds(target, vr, mp) ==
    target.tags \cup {mp} \cup (IF vr # None THEN {vr} ELSE {})

----------------------------------------------------------------------------
(* main() *)

Init ==
    /\ DRY_RUN \in BOOLEAN
    /\ VR_TAG_NAME \in {<<"V", "R">>, <<>>}
    /\ catalog \in Catalogs
    /\ catalog0 = catalog
    /\ pc = "start"
    /\ requests = <<>>
    /\ trace = <<>>
    /\ vr_tag_id = None
    /\ mp_tag_id = None
    /\ all_scenes = <<>>
    /\ groups = <<>>
    /\ gi = 0
    /\ cur = NoBucket
    /\ merged_count = 0
    /\ exit_code = -1
    /\ name = <<>>
    /\ parsed = <<>>
    /\ title = <<>>
    /\ cleaned = <<>>

\* an exception that is recorded while main() goes on where it was
Raise_and_continue(outcome) ==
    /\ pc' = pc
    /\ exit_code' = ExitCodeOf(outcome)

\* an exception leaves main() through its handlers
Raise(outcome) ==
    /\ pc' = "error"
    /\ exit_code' = ExitCodeOf(outcome)

\* test_graphql_connection fails: output_result(error=...); return
ConnectionTestFails ==
    /\ pc = "start"
    /\ pc' = "refused"
    /\ exit_code' = 0
    /\ UNCHANGED <<DRY_RUN, VR_TAG_NAME, catalog, catalog0, requests, trace,
                   vr_tag_id, mp_tag_id, all_scenes, groups, gi, cur,
                   merged_count>>
    /\ UNCHANGED textVars

\* get_or_create_tag(name), its result going to vr_tag_id or mp_tag_id
get_or_create_tag(tag_name, isVr, next) ==
    LET found == {tg \in catalog.tags : Lower(tg.name) = Lower(tag_name)}
        newId == Max({tg.id : tg \in catalog.tags}) + 1
        Result(id) == IF isVr
                      THEN vr_tag_id' = id /\ UNCHANGED mp_tag_id
                      ELSE mp_tag_id' = id /\ UNCHANGED vr_tag_id
    IN  \E find \in Outcomes :
          IF find # "ok"
          THEN /\ Raise(find)
               /\ UNCHANGED <<catalog, requests, vr_tag_id, mp_tag_id>>
          ELSE IF found # {}
          THEN /\ \E tg \in found : Result(tg.id)
               /\ pc' = next
               /\ UNCHANGED <<catalog, requests, exit_code>>
          ELSE \E create \in Outcomes :
               /\ requests' = Append(requests,
                                Call("tagCreate", 0, <<>>, {}, tag_name))
               /\ IF create = "ok"
                  THEN /\ catalog' = [catalog EXCEPT !.tags =
                               @ \cup {[id |-> newId, name |-> tag_name]}]
                       /\ Result(newId)
                       /\ pc' = next
                       /\ UNCHANGED exit_code
                  ELSE /\ Raise(create)
                       /\ UNCHANGED <<catalog, vr_tag_id, mp_tag_id>>

\* vr_tag_id = get_or_create_tag(VR_TAG_NAME) if VR_TAG_NAME else None
ResolveVrTag ==
    /\ pc = "start"
    /\ IF VR_TAG_NAME # <<>>
       THEN get_or_create_tag(VR_TAG_NAME, TRUE, "mp_tag")
       ELSE /\ pc' = "mp_tag"
            /\ UNCHANGED <<catalog, requests, vr_tag_id, mp_tag_id, exit_code>>
    /\ UNCHANGED <<DRY_RUN, VR_TAG_NAME, catalog0, trace, all_scenes, groups,
                   gi, cur, merged_count>>
    /\ UNCHANGED textVars

\* mp_tag_id = get_or_create_tag(MULTIPART_TAG_NAME)
ResolveMpTag ==
    /\ pc = "mp_tag"
    /\ get_or_create_tag(MULTIPART_TAG_NAME, FALSE, "fetch")
    /\ UNCHANGED <<DRY_RUN, VR_TAG_NAME, catalog0, trace, all_scenes, groups,
                   gi, cur, merged_count>>
    /\ UNCHANGED textVars

\* fetch_scenes_page(page, per_page) on the server
ScenesPage(page) ==
    SubSeq(catalog.scenes, (page - 1) * PerPage + 1,
           IF page * PerPage < Len(catalog.scenes)
           THEN page * PerPage ELSE Len(catalog.scenes))

\* the pagination loop of main(), then the loop that builds groups
FetchScenes ==
    /\ pc = "fetch"
    /\ \E outcome \in Outcomes :
         IF outcome = "ok"
         THEN LET total == Len(catalog.scenes)
                  ceil == (total + PerPage - 1) \div PerPage
                  pages == IF ceil > 1 THEN ceil ELSE 1
                  fetched == Flatten([p \in 1..pages |-> ScenesPage(p)])
              IN  /\ all_scenes' = fetched
                  /\ groups' = BuildGroups(<<>>, fetched)
                  /\ gi' = 1
                  /\ pc' = "loop"
                  /\ UNCHANGED exit_code
         ELSE /\ Raise(outcome)
              /\ UNCHANGED <<all_scenes, groups, gi>>
    /\ UNCHANGED <<DRY_RUN, VR_TAG_NAME, catalog, catalog0, requests, trace,
                   vr_tag_id, mp_tag_id, cur, merged_count>>
    /\ UNCHANGED textVars

\* if len(items) < 2: continue
SkipGroup ==
    /\ pc = "loop"
    /\ gi <= Len(groups)
    /\ ~Qualifies(groups[gi].items)
    /\ gi' = gi + 1
    /\ UNCHANGED <<DRY_RUN, VR_TAG_NAME, pc, catalog, catalog0, requests,
                   trace, vr_tag_id, mp_tag_id, all_scenes, groups, cur,
                   merged_count, exit_code>>
    /\ UNCHANGED textVars

\* the body of a catalog call: printed when DRY_RUN, else sent through gql()
Issue(call, effect, next) ==
    IF DRY_RUN
    THEN /\ trace' = Append(trace, call)
         /\ pc' = next
         /\ UNCHANGED <<requests, catalog, exit_code>>
    ELSE \E outcome \in Outcomes :
         /\ requests' = Append(requests, call)
         /\ UNCHANGED trace
         /\ IF outcome = "ok"
            THEN /\ catalog' = [catalog EXCEPT !.scenes = effect]
                 /\ pc' = next
                 /\ UNCHANGED exit_code
            ELSE /\ Raise(outcome)
                 /\ UNCHANGED catalog

\* scene_merge(target_id, source_ids)
scene_merge(target_id, source_ids, next) ==
    IF source_ids = <<>>
    THEN /\ pc' = next
         /\ UNCHANGED <<requests, trace, catalog, exit_code>>
    ELSE Issue(Call("sceneMerge", target_id, source_ids, {}, <<>>),
               MergedScenes(catalog.scenes, target_id, source_ids), next)

\* scene_update_tags printing, when DRY_RUN, no tag ids
scene_update_tags_dry_differs(scene_id, tag_ids, next) ==
    Issue(Call("sceneUpdate tags", scene_id, <<>>,
               IF DRY_RUN THEN {} ELSE tag_ids, <<>>),
          UpdatedScenes(catalog.scenes, scene_id, "tags", tag_ids), next)

\* scene_update_tags(scene_id, tag_ids)
scene_update_tags(scene_id, tag_ids, next) ==
    Issue(Call("sceneUpdate tags", scene_id, <<>>, tag_ids, <<>>),
          UpdatedScenes(catalog.scenes, scene_id, "tags", tag_ids), next)

\* scene_update_title(scene_id, title)
scene_update_title(scene_id, text, next) ==
    Issue(Call("sceneUpdate title", scene_id, <<>>, {}, text),
          UpdatedScenes(catalog.scenes, scene_id, "title", text), next)

\* items.sort(...); target = items[0]["scene"]; scene_merge(...);
\* merged_count += 1
MergeGroup ==
    /\ pc = "loop"
    /\ gi <= Len(groups)
    /\ Qualifies(groups[gi].items)
    /\ LET items == SortByPart(groups[gi].items)
           target == items[1].scene
       IN  /\ groups' = [groups EXCEPT ![gi].items = items]
           /\ cur' = [items |-> items, target |-> target]
           /\ scene_merge(target.id, SourceIds(items), "tags")
    /\ merged_count' = merged_count + 1
    /\ UNCHANGED <<DRY_RUN, VR_TAG_NAME, catalog0, vr_tag_id, mp_tag_id,
                   all_scenes, gi>>
    /\ UNCHANGED textVars

\* tag_ids = ...; scene_update_tags(target["id"], list(tag_ids))
RetagTarget ==
    /\ pc = "tags"
    /\ scene_update_tags(cur.target.id,
                         TagIds(cur.target, vr_tag_id, mp_tag_id), "title")
    /\ UNCHANGED <<DRY_RUN, VR_TAG_NAME, catalog0, vr_tag_id, mp_tag_id,
                   all_scenes, groups, gi, cur, merged_count>>
    /\ UNCHANGED textVars

\* if new_title and new_title != target["title"]: scene_update_title(...)
RetitleTarget ==
    /\ pc = "title"
    /\ title_changes(cur.target.title)
    /\ scene_update_title(cur.target.id, new_title(cur.target.title), "loop")
    /\ gi' = gi + 1
    /\ UNCHANGED <<DRY_RUN, VR_TAG_NAME, catalog0, vr_tag_id, mp_tag_id,
                   all_scenes, groups, cur, merged_count>>
    /\ UNCHANGED textVars

\* the title needs no change: on to the next group
KeepTitle ==
    /\ pc = "title"
    /\ ~title_changes(cur.target.title)
    /\ pc' = "loop"
    /\ gi' = gi + 1
    /\ UNCHANGED <<DRY_RUN, VR_TAG_NAME, catalog, catalog0, requests, trace,
                   vr_tag_id, mp_tag_id, all_scenes, groups, cur,
                   merged_count, exit_code>>
    /\ UNCHANGED textVars

\* the loop is over: output_result(output=...)
Finish ==
    /\ pc = "loop"
    /\ gi > Len(groups)
    /\ pc' = "done"
    /\ exit_code' = 0
    /\ UNCHANGED <<DRY_RUN, VR_TAG_NAME, catalog, catalog0, requests, trace,
                   vr_tag_id, mp_tag_id, all_scenes, groups, gi, cur,
                   merged_count>>
    /\ UNCHANGED textVars

Next ==
    \/ ConnectionTestFails
    \/ ResolveVrTag
    \/ ResolveMpTag
    \/ FetchScenes
    \/ SkipGroup
    \/ MergeGroup
    \/ RetagTarget
    \/ RetitleTarget
    \/ KeepTitle
    \/ Finish

Spec == Init /\ [][Next]_vars

----------------------------------------------------------------------------
(* Vocabulary of the properties *)

Range(q) == {q[i] : i \in 1..Len(q)}

Min(S) == CHOOSE x \in S : \A y \in S : x <= y

IsPrefix(p, q) == Len(p) <= Len(q) /\ \A i \in 1..Len(p) : p[i] = q[i]

\* the requests that change scenes
SceneRequests == SelectSeq(requests, LAMBDA c : c.op # "tagCreate")

\* what the run did about scenes: printed lines when DRY_RUN, else requests
Log == IF DRY_RUN THEN trace ELSE SceneRequests

MergesOf(log) == SelectSeq(log, LAMBDA c : c.op = "sceneMerge")

PosInScenes(id) == CHOOSE i \in 1..Len(all_scenes) : all_scenes[i].id = id

FetchedScene(id) == all_scenes[PosInScenes(id)]

\* the records a call names: its target and its sources
Members(c) == {c.id} \cup Range(c.sources)

\* what the parser makes of the first file of each record of the pool
PoolParse ==
    [sc \in ScenePool |->
        IF sc.files = <<>> THEN [base |-> <<>>, part |-> NoPart]
        ELSE normalize_basename(sc.files[1].basename)]

\* what the title cleaning makes of the title of each record of the pool
PoolTitle == [sc \in ScenePool |-> new_title(sc.title)]

\* the bucket a fetched record falls in, by its first file
Groupable(sc) == sc.files # <<>> /\ PoolParse[sc].part # NoPart

KeyOf(sc) == <<Parent(sc.files[1].path), Lower(PoolParse[sc].base)>>

PartOf(sc) == PoolParse[sc].part

\* positions in all_scenes of the records sharing the bucket of record id
BucketPositions(id) ==
    IF ~Groupable(FetchedScene(id)) THEN {}
    ELSE {i \in 1..Len(all_scenes) :
             /\ Groupable(all_scenes[i])
             /\ KeyOf(all_scenes[i]) = KeyOf(FetchedScene(id))}

\* the explicit part tokens of s, by the grammar of the specification:
\* keyword at kw, separators, then 1-2 digits or 1-6 of I/V/X from num to
\* end - 1, the whole bounded by a boundary character or an end of s
ExplicitTokens(s) ==
    {tk \in [kw : 1..Len(s), num : 1..Len(s), end : 1..(Len(s) + 1)] :
        /\ tk.kw < tk.num /\ tk.num < tk.end
        /\ tk.kw = 1 \/ s[tk.kw - 1] \in Boundary
        /\ tk.end = Len(s) + 1 \/ s[tk.end] \in Boundary
        /\ \E b \in (tk.kw + 1)..tk.num :
              /\ Lower(SubSeq(s, tk.kw, b - 1)) \in Range(Keywords)
              /\ \A k \in b..(tk.num - 1) : s[k] \in Separator
        /\ LET n == tk.end - tk.num
               num == Range(Lower(SubSeq(s, tk.num, tk.end - 1)))
           IN  \/ n <= 2 /\ num \subseteq Digits
               \/ n <= 6 /\ num \subseteq Roman}

\* the standalone bounded A/B letters of s
AbTokens(s) ==
    {k \in 1..Len(s) :
        /\ LowerChar(s[k]) \in {"a", "b"}
        /\ k = 1 \/ s[k - 1] \in Boundary
        /\ k = Len(s) \/ s[k + 1] \in Boundary}

HasToken(s) == ExplicitTokens(s) # {} \/ AbTokens(s) # {}

LeftmostToken(s) ==
    CHOOSE tk \in ExplicitTokens(s) : \A o \in ExplicitTokens(s) : tk.kw <= o.kw

NumeralOf(s, tk) == SubSeq(s, tk.num, tk.end - 1)

TokenText(s, tk) == SubSeq(s, tk.kw, tk.end - 1)

IsDigits(num) == Range(num) \subseteq Digits

\* the tokens the title cleaning is about: keyword at start, separators,
\* then 1..maxDigits digits up to end - 1, a word boundary on both sides
TitleTokens(t, maxDigits) ==
    {tk \in [start : 1..Len(t), end : 1..(Len(t) + 1)] :
        /\ WordBoundary(t, tk.start)
        /\ WordBoundary(t, tk.end)
        /\ \E b, c \in (tk.start + 1)..(tk.end - 1) :
              /\ b <= c
              /\ Lower(SubSeq(t, tk.start, b - 1)) \in Range(Keywords)
              /\ \A k \in b..(c - 1) : t[k] \in Separator
              /\ tk.end - c <= maxDigits
              /\ \A k \in c..(tk.end - 1) : t[k] \in Digits}

\* t without the characters of the tokens toks
RECURSIVE DropTokens(_, _, _)
DropTokens(t, toks, i) ==
    IF i > Len(t) THEN <<>>
    ELSE (IF \E tk \in toks : tk.start <= i /\ i < tk.end
          THEN <<>> ELSE <<t[i]>>) \o DropTokens(t, toks, i + 1)

\* the title the cleaning is said to give when tokens have <= maxDigits digits
StatedTitle(t, maxDigits) ==
    strip(CollapseWs2(DropTokens(t, TitleTokens(t, maxDigits), 1)))

IdsOf(scenes) == [i \in 1..Len(scenes) |-> scenes[i].id]

\* the records of scenes of part number n, in their order
PartsEqual(scenes, n) == SelectSeq(scenes, LAMBDA sc : PartOf(sc) = n)

\* the records of a bucket by ascending part, equal parts in bucket order
RECURSIVE AscendingFrom(_, _)
AscendingFrom(bucket, n) ==
    IF \A i \in 1..Len(bucket) : PartOf(bucket[i]) < n THEN <<>>
    ELSE PartsEqual(bucket, n) \o AscendingFrom(bucket, n + 1)

\* the calls of the plan of the bucket of the record at position p
CallsOfBucket(scenes, p, vr, mp) ==
    LET bucket == SelectSeq(scenes, LAMBDA sc :
                      Groupable(sc) /\ KeyOf(sc) = KeyOf(scenes[p]))
        plan == AscendingFrom(bucket, 0)
        target == plan[1]
        text == PoolTitle[target]
    IN  IF Len(bucket) < 2 THEN <<>>
        ELSE <<Call("sceneMerge", target.id, Tail(IdsOf(plan)), {}, <<>>),
               Call("sceneUpdate tags", target.id, <<>>,
                    target.tags \cup {mp} \cup (IF vr = None THEN {} ELSE {vr}),
                    <<>>)>>
             \o (IF text # <<>> /\ text # target.title
                 THEN <<Call("sceneUpdate title", target.id, <<>>, {}, text)>>
                 ELSE <<>>)

\* the calls of all plans: bucket after bucket, a bucket standing where its
\* first record stands in scenes
RECURSIVE PlanCalls(_, _, _, _)
PlanCalls(scenes, p, vr, mp) ==
    IF p > Len(scenes) THEN <<>>
    ELSE (IF /\ Groupable(scenes[p])
             /\ \A q \in 1..(p - 1) :
                   ~(Groupable(scenes[q]) /\ KeyOf(scenes[q]) = KeyOf(scenes[p]))
          THEN CallsOfBucket(scenes, p, vr, mp) ELSE <<>>)
         \o PlanCalls(scenes, p + 1, vr, mp)

\* the calls a run over the fetched records makes when no call fails,
\* whatever DRY_RUN is
ExpectedCalls == PlanCalls(all_scenes, 1, vr_tag_id, mp_tag_id)

----------------------------------------------------------------------------
(* Properties *)

\* C1: in preview mode (DRY_RUN) no mutating request is ever issued to the
\* catalog, tag resolution included: the catalog stays as it was at the
\* start of the run.
C1_PreviewNeverMutates ==
    DRY_RUN => requests = <<>> /\ catalog = catalog0

\* C2: for the three records "Scene A pt1.mp4", "Scene A pt2.mp4" and
\* "Scene B.mp4" of one directory, in any input order, there is exactly one
\* plan, keyed (dir, "scene a"), with target pt1 and sources [pt2]; the
\* "Scene B" record is in no call.
C2_SceneABGrouping ==
    (Len(catalog0.scenes) = 3 /\ Range(IdsOf(catalog0.scenes)) = {1, 2, 3}) =>
        /\ \A i \in 1..Len(Log) :
              /\ Log[i].id = 1
              /\ Log[i].sources =
                    IF Log[i].op = "sceneMerge" THEN <<2>> ELSE <<>>
        /\ pc \in {"loop", "tags", "title", "done"} =>
              \E g \in 1..Len(groups) :
                  /\ groups[g].key =
                        << <<"media", "d1">>,
                           <<"s", "c", "e", "n", "e", " ", "a">> >>
                  /\ \A h \in 1..Len(groups) :
                        Len(groups[h].items) >= 2 <=> h = g
        /\ pc = "done" => Len(MergesOf(Log)) = 1

C2_Witness ==
    /\ IdsOf(catalog0.scenes) = <<3, 2, 1>>
    /\ pc = "done"
    /\ Len(MergesOf(Log)) = 1

\* C3: the target followed by the sources of every merge call is the stable
\* ascending sort by part number of the records of the bucket: no part
\* decreases along it and records of equal part keep their discovery order.
C3_StableAscendingOrder ==
    \A i \in 1..Len(Log) :
        Log[i].op = "sceneMerge" =>
            LET ids == <<Log[i].id>> \o Log[i].sources
                part(k) == PartOf(FetchedScene(ids[k]))
            IN  /\ \A k, m \in 1..Len(ids) : k # m => ids[k] # ids[m]
                /\ {PosInScenes(ids[k]) : k \in 1..Len(ids)}
                      = BucketPositions(Log[i].id)
                /\ Len(ids) >= 2
                /\ \A k, m \in 1..Len(ids) :
                      k < m =>
                          /\ part(k) <= part(m)
                          /\ part(k) = part(m) =>
                                PosInScenes(ids[k]) < PosInScenes(ids[m])

C3_Witness ==
    /\ IdsOf(all_scenes) = <<4, 2, 1, 5>>
    /\ Len(Log) >= 1
    /\ Log[1] = Call("sceneMerge", 1, <<4, 2, 5>>, {}, <<>>)

\* C4: the calls of a plan come in the order merge, set-tags, set-title, all
\* on the plan's target; set-title is issued exactly when the cleaned title
\* is non-empty and differs from the target's title; the calls of one plan
\* all come before those of the next, and plans come in the order in which
\* their buckets were first inserted.
C4_CallOrder ==
    /\ Log # <<>> => Log[1].op = "sceneMerge"
    /\ \A i \in 1..(Len(Log) - 1) :
          /\ Log[i].op = "sceneMerge" =>
                Log[i + 1].op = "sceneUpdate tags" /\ Log[i + 1].id = Log[i].id
          /\ Log[i].op = "sceneUpdate tags" =>
                \/ Log[i + 1].op = "sceneUpdate title"
                      /\ Log[i + 1].id = Log[i].id
                \/ Log[i + 1].op = "sceneMerge"
          /\ Log[i].op = "sceneUpdate title" => Log[i + 1].op = "sceneMerge"
    /\ \A i \in 1..Len(Log) :
          LET was == FetchedScene(Log[i].id).title
              now == PoolTitle[FetchedScene(Log[i].id)]
          IN  /\ (Log[i].op = "sceneUpdate tags"
                    /\ (i < Len(Log) \/ pc \in {"loop", "done"})) =>
                     ((i < Len(Log) /\ Log[i + 1].op = "sceneUpdate title")
                        <=> (now # <<>> /\ now # was))
              /\ Log[i].op = "sceneUpdate title" => Log[i].title = now
    /\ \A i, j \in 1..Len(Log) :
          (i < j /\ Log[i].op = "sceneMerge" /\ Log[j].op = "sceneMerge") =>
              /\ Members(Log[i]) \cap Members(Log[j]) = {}
              /\ Min({PosInScenes(m) : m \in Members(Log[i])})
                    < Min({PosInScenes(m) : m \in Members(Log[j])})

C4_Witness ==
    /\ pc = "done"
    /\ Len(Log) = 5
    /\ Log[1].op = "sceneMerge" /\ Log[2].op = "sceneUpdate tags"
    /\ Log[3].op = "sceneMerge" /\ Log[4].op = "sceneUpdate tags"
    /\ Log[5].op = "sceneUpdate title"

\* C5: once a call has failed (the run has an error outcome), no further
\* request is issued and nothing is rolled back: requests, printed lines and
\* catalog stay as they are; the failing step itself issues at most the
\* failing request and leaves the catalog as the calls before it made it.
C5_NoCallAfterFailure ==
    [][/\ exit_code \in {1, 2} =>
             /\ requests' = requests
             /\ trace' = trace
             /\ catalog' = catalog
             /\ exit_code' = exit_code
       /\ (exit_code = -1 /\ exit_code' \in {1, 2}) =>
             /\ catalog' = catalog
             /\ IsPrefix(requests, requests')
             /\ Len(requests') <= Len(requests) + 1
             /\ pc' = "error"]_vars

C5_Witness ==
    /\ exit_code \in {1, 2}
    /\ ~DRY_RUN
    /\ Len(MergesOf(requests)) = 2
    /\ requests[Len(requests)].op = "sceneUpdate tags"
    /\ catalog.scenes # catalog0.scenes

\* C6: the lines a preview run prints and the requests a run that applies
\* them issues are, call for call (operation, target id, source ids, tag
\* ids, title), the calls that the fetched records and the resolved tag ids
\* determine, which do not depend on DRY_RUN; a preview run issues no scene
\* request and an applying run prints no line.
C6_TraceEqualsCalls ==
    /\ DRY_RUN => SceneRequests = <<>>
    /\ ~DRY_RUN => trace = <<>>
    /\ IsPrefix(Log, ExpectedCalls)
    /\ pc = "done" => Log = ExpectedCalls

C6_Witness ==
    /\ DRY_RUN
    /\ pc = "done"
    /\ Len(trace) = 6

\* C7: no plan is made for a bucket of fewer than 2 records: every merge
\* call names at least one source and every call's target is a record whose
\* bucket holds at least 2 records.
C7_NoPlanForSmallBucket ==
    \A i \in 1..Len(Log) :
        /\ Log[i].op = "sceneMerge" => Log[i].sources # <<>>
        /\ \A m \in Members(Log[i]) : Cardinality(BucketPositions(m)) >= 2

C7_Witness ==
    /\ pc = "done"
    /\ Log # <<>>
    /\ \E i \in 1..Len(all_scenes) :
          Cardinality(BucketPositions(all_scenes[i].id)) = 1

\* C8 as stated: the part number is null exactly when the stem holds no
\* recognized part token (explicit keyword token or standalone A/B letter).
C8_NullIffNoToken ==
    parsed # <<>> =>
        (parsed[1].part = NoPart <=> ~HasToken(Stem(name)))

\* C8 as amended: the part number is null exactly when the stem holds no
\* recognized part token, or its leftmost explicit token carries a roman
\* numeral whose right-to-left decoding is not positive; otherwise it is a
\* natural number.
C8_NullIffNoTokenOrBadRoman ==
    parsed # <<>> =>
        LET stem == Stem(name)
            tk == LeftmostToken(stem)
            badRoman ==
                /\ ExplicitTokens(stem) # {}
                /\ ~IsDigits(NumeralOf(stem, tk))
                /\ RomanScan(Upper(NumeralOf(stem, tk)), 1).total <= 0
        IN  /\ parsed[1].part = NoPart <=> (~HasToken(stem) \/ badRoman)
            /\ parsed[1].part # NoPart => parsed[1].part \in Nat

C8_Witness ==
    /\ parsed # <<>>
    /\ ExplicitTokens(Stem(name)) # {}
    /\ parsed[1].part = NoPart

\* C9: for a stem with several explicit part tokens the part number is that
\* of the leftmost token, and no explicit token of the stem survives in the
\* normalized base.
C9_AllTokensRemoved ==
    (parsed # <<>> /\ Cardinality(ExplicitTokens(Stem(name))) >= 2) =>
        LET stem == Stem(name)
            num == NumeralOf(stem, LeftmostToken(stem))
            base == parsed[1].base
        IN  /\ parsed[1].part =
                  IF IsDigits(num) THEN int(num) ELSE roman_to_int(num)
            /\ ~\E tk \in ExplicitTokens(stem), sv \in ExplicitTokens(base) :
                  TokenText(stem, tk) = TokenText(base, sv)

\* C10 as stated: the cleaned title is the title without its tokens of
\* keyword, separators and a 1-2 digit number, whitespace collapsed and ends
\* trimmed; tokens with other numbers stay; an empty or equal result leaves
\* the title unchanged.
C10_TwoDigitTokensRemoved ==
    cleaned # <<>> =>
        LET stated == StatedTitle(title, 2)
        IN  /\ cleaned[1].update <=> (stated # <<>> /\ stated # title)
            /\ cleaned[1].update => cleaned[1].new_title = stated

\* C10 as amended: the cleaned title is the title without its tokens of
\* keyword, separators and one or more digits (any count) that begin and end
\* at a word boundary, whitespace runs collapsed and ends trimmed; tokens
\* numbered with roman numerals or letters stay; an empty or equal result
\* leaves the title unchanged ("My Show part 2" gives "My Show", "My Show"
\* stays).
C10_DigitTokensRemoved ==
    cleaned # <<>> =>
        LET stated == StatedTitle(title, Len(title))
        IN  /\ cleaned[1].new_title = stated
            /\ cleaned[1].update <=> (stated # <<>> /\ stated # title)
            /\ title = MyShowPart2 =>
                  cleaned[1].new_title = MyShow /\ cleaned[1].update
            /\ title = MyShow => ~cleaned[1].update
            /\ Range(title) \cap Digits = {} =>
                  cleaned[1].new_title = strip(CollapseWs2(title))

C10_Witness ==
    /\ cleaned # <<>>
    /\ cleaned[1].update
    /\ \E tk \in TitleTokens(title, Len(title)) :
          /\ tk.end - tk.start >= 5
          /\ \A k \in (tk.end - 3)..(tk.end - 1) : title[k] \in Digits

====
